---- MODULE Spec2Model ----
(***************************************************************************)
(* CharStream (src/src/lib.rs): a bi-directional cursor over the           *)
(* characters of an owned String.  The struct holds the String `value`,    *)
(* a cache `payload` of value.len() + 1 optional characters (slot 0 is the *)
(* sentinel) and the cursor `index`.  The five trait methods next, prev,   *)
(* peek_next, peek_prev and value are modelled as pure operators on        *)
(* (index, payload, value) and as one action each.                         *)
(*                                                                         *)
(* `log` is the caller's view: the calls made so far, each with the index  *)
(* before and after it and the value it returned.  A panic ends the run    *)
(* (`panicked`); nothing is called on the cursor afterwards.               *)
(***************************************************************************)
EXTENDS Integers, Sequences, FiniteSets

VARIABLES value, payload, index, panicked, log

vars == <<value, payload, index, panicked, log>>

\* ---- bounds -------------------------------------------------------------
\* longest text, in characters
MaxLen == 3
\* most calls made on one cursor
MaxCalls == 5

\* ---- characters and strings --------------------------------------------
\* Two one-byte characters and one two-byte character (UTF-8).
Chars == {"a", "b", "U+00E9"}

\* char::len_utf8
Utf8Len(c) == IF c = "U+00E9" THEN 2 ELSE 1

Texts == UNION {[1..n -> Chars] : n \in 0..MaxLen}

\* String::len : the length in BYTES, not in characters
RECURSIVE len(_)
len(T) == IF T = <<>> THEN 0 ELSE Utf8Len(Head(T)) + len(Tail(T))

\* Option<char>::None ; Some(c) is written c
None == "None"

\* value.chars().next() : a fresh iterator each time, so always the first
\* character of the string (None for the empty string)
chars_next(T) == IF Len(T) = 0 THEN None ELSE T[1]

\* ---- results ------------------------------------------------------------
Ok(v) == [kind |-> "Ok", val |-> v]
Err(e) == [kind |-> "Err", val |-> e]
Panic(m) == [kind |-> "Panic", val |-> m]

\* Ok(self) of peek_next / peek_prev
Self == "self"

\* Option::ok_or(CharStreamError::ValueNotFound)
ok_or(o) == IF o = None THEN Err("ValueNotFound") ELSE Ok(o)

\* The value of usize::MAX, reached by 0usize - 1 when overflow checks are
\* off.  Indices are residues modulo 2^64; this one residue outside the small
\* range is written by its two's-complement name.  It is different from
\* every small index and is the index of no payload slot.
UsizeMax == 0 - 1

\* the outcome of a method: new index, new payload, returned value
Out(i, pl, r) == [index |-> i, payload |-> pl, res |-> r]

\* ---- CharStream::from ---------------------------------------------------
from(s) == [payload |-> [i \in 0..len(s) |-> None], value |-> s, index |-> 0]

\* ---- BiDirectionalIterator for CharStream ------------------------------
\* mutants of next (bound check)
next_op_eq(idx, pl, T) ==
    LET current == idx + 1 IN
    IF current = len(T) + 1 THEN Out(current, pl, Err("FallsOffEnd"))
    ELSE IF current \notin DOMAIN pl
         THEN Out(current, pl, Panic("index out of bounds"))
    ELSE IF pl[current] # None THEN Out(current, pl, ok_or(pl[current]))
    ELSE IF chars_next(T) # None
         THEN LET pl2 == [pl EXCEPT ![current] = chars_next(T)]
              IN Out(current, pl2, ok_or(pl2[current]))
    ELSE Out(current, pl, Err("FallsOffEnd"))

next_op_late(idx, pl, T) ==
    LET current == idx + 1 IN
    IF current > len(T) + 1 THEN Out(current, pl, Err("FallsOffEnd"))
    ELSE IF current \notin DOMAIN pl
         THEN Out(current, pl, Panic("index out of bounds"))
    ELSE IF pl[current] # None THEN Out(current, pl, ok_or(pl[current]))
    ELSE IF chars_next(T) # None
         THEN LET pl2 == [pl EXCEPT ![current] = chars_next(T)]
              IN Out(current, pl2, ok_or(pl2[current]))
    ELSE Out(current, pl, Err("FallsOffEnd"))

\* mutant of next (returns the character without caching it)
next_op_nofill(idx, pl, T) ==
    LET current == idx + 1 IN
    IF current > len(T) THEN Out(current, pl, Err("FallsOffEnd"))
    ELSE IF current \notin DOMAIN pl
         THEN Out(current, pl, Panic("index out of bounds"))
    ELSE IF pl[current] # None THEN Out(current, pl, ok_or(pl[current]))
    ELSE IF chars_next(T) # None
         THEN Out(current, pl, ok_or(chars_next(T)))
    ELSE Out(current, pl, Err("FallsOffEnd"))

\* next(&self): the index is replaced before the bound check
next_op(idx, pl, T) ==
    LET current == idx + 1 IN
    IF current > len(T) THEN Out(current, pl, Err("FallsOffEnd"))
    ELSE IF current \notin DOMAIN pl
         THEN Out(current, pl, Panic("index out of bounds"))
    ELSE IF pl[current] # None THEN Out(current, pl, ok_or(pl[current]))
    ELSE IF chars_next(T) # None
         THEN LET pl2 == [pl EXCEPT ![current] = chars_next(T)]
              IN Out(current, pl2, ok_or(pl2[current]))
    ELSE Out(current, pl, Err("FallsOffEnd"))

\* mutant of prev (front check one slot late)
prev_op_front2(idx, pl, T, oc) ==
    IF idx = 2 THEN Out(idx, pl, Err("FallsOffEnd"))
    ELSE IF idx = 0 /\ oc
         THEN Out(idx, pl, Panic("attempt to subtract with overflow"))
    ELSE LET current == IF idx = 0 THEN UsizeMax ELSE idx - 1 IN
         IF current \notin DOMAIN pl
         THEN Out(current, pl, Panic("index out of bounds"))
         ELSE IF ~(current = 0 \/ pl[current] # None)
              THEN Out(current, pl, Panic("assertion failed"))
         ELSE Out(current, pl, ok_or(pl[current]))

\* mutant of prev (no front check)
prev_op_nofront(idx, pl, T, oc) ==
    IF idx = 0 /\ oc
    THEN Out(idx, pl, Panic("attempt to subtract with overflow"))
    ELSE LET current == IF idx = 0 THEN UsizeMax ELSE idx - 1 IN
         IF current \notin DOMAIN pl
         THEN Out(current, pl, Panic("index out of bounds"))
         ELSE IF ~(current = 0 \/ pl[current] # None)
              THEN Out(current, pl, Panic("assertion failed"))
         ELSE Out(current, pl, ok_or(pl[current]))

\* mutant of prev (empties the slot it leaves)
prev_op_evict(idx, pl, T, oc) ==
    IF idx = 1 THEN Out(idx, pl, Err("FallsOffEnd"))
    ELSE IF idx = 0 /\ oc
         THEN Out(idx, pl, Panic("attempt to subtract with overflow"))
    ELSE LET current == IF idx = 0 THEN UsizeMax ELSE idx - 1 IN
         IF current \notin DOMAIN pl
         THEN Out(current, pl, Panic("index out of bounds"))
         ELSE IF ~(current = 0 \/ pl[current] # None)
              THEN Out(current, pl, Panic("assertion failed"))
         ELSE Out(current,
                  IF idx \in DOMAIN pl THEN [pl EXCEPT ![idx] = None] ELSE pl,
                  ok_or(pl[current]))

\* prev(&self); oc: the build checks integer overflow (debug) or wraps
prev_op(idx, pl, T, oc) ==
    IF idx = 1 THEN Out(idx, pl, Err("FallsOffEnd"))
    ELSE IF idx = 0 /\ oc
         THEN Out(idx, pl, Panic("attempt to subtract with overflow"))
    ELSE LET current == IF idx = 0 THEN UsizeMax ELSE idx - 1 IN
         IF current \notin DOMAIN pl
         THEN Out(current, pl, Panic("index out of bounds"))
         ELSE IF ~(current = 0 \/ pl[current] # None)
              THEN Out(current, pl, Panic("assertion failed"))
         ELSE Out(current, pl, ok_or(pl[current]))

\* mutant of peek_next (bound check one slot early)
peek_next_op_early(idx, pl, T) ==
    LET current == idx + 1 IN
    IF current >= len(T) THEN Out(current, pl, Err("FallsOffEnd"))
    ELSE IF current \notin DOMAIN pl
         THEN Out(current, pl, Panic("index out of bounds"))
    ELSE IF pl[current] # None THEN Out(current, pl, Ok(Self))
    ELSE IF chars_next(T) # None
         THEN LET pl2 == [pl EXCEPT ![current] = chars_next(T)]
              IN IF pl2[current] = None
                 THEN Out(current, pl2, Panic("assertion failed"))
                 ELSE Out(current, pl2, Ok(Self))
    ELSE Out(current, pl, Err("NextFailed"))

\* peek_next(&self)
peek_next_op(idx, pl, T) ==
    LET current == idx + 1 IN
    IF current > len(T) THEN Out(current, pl, Err("FallsOffEnd"))
    ELSE IF current \notin DOMAIN pl
         THEN Out(current, pl, Panic("index out of bounds"))
    ELSE IF pl[current] # None THEN Out(current, pl, Ok(Self))
    ELSE IF chars_next(T) # None
         THEN LET pl2 == [pl EXCEPT ![current] = chars_next(T)]
              IN IF pl2[current] = None
                 THEN Out(current, pl2, Panic("assertion failed"))
                 ELSE Out(current, pl2, Ok(Self))
    ELSE Out(current, pl, Err("NextFailed"))

\* mutant of peek_prev (looks back without moving)
peek_prev_op_nomove(idx, pl, T, oc) ==
    IF idx = 0 /\ oc
    THEN Out(idx, pl, Panic("attempt to subtract with overflow"))
    ELSE LET current == IF idx = 0 THEN UsizeMax ELSE idx - 1 IN
         IF current = 0 THEN Out(idx, pl, Err("FallsOffEnd"))
         ELSE IF current \notin DOMAIN pl
              THEN Out(idx, pl, Panic("index out of bounds"))
         ELSE IF pl[current] = None
              THEN Out(idx, pl, Panic("assertion failed"))
         ELSE Out(idx, pl, Ok(Self))

\* mutant of peek_prev (the index is replaced before the front check)
peek_prev_op_commit0(idx, pl, T, oc) ==
    IF idx = 0 /\ oc
    THEN Out(idx, pl, Panic("attempt to subtract with overflow"))
    ELSE LET current == IF idx = 0 THEN UsizeMax ELSE idx - 1 IN
         IF current = 0 THEN Out(current, pl, Err("FallsOffEnd"))
         ELSE IF current \notin DOMAIN pl
              THEN Out(current, pl, Panic("index out of bounds"))
         ELSE IF pl[current] = None
              THEN Out(current, pl, Panic("assertion failed"))
         ELSE Out(current, pl, Ok(Self))

\* peek_prev(&self): the index is replaced after the front check
peek_prev_op(idx, pl, T, oc) ==
    IF idx = 0 /\ oc
    THEN Out(idx, pl, Panic("attempt to subtract with overflow"))
    ELSE LET current == IF idx = 0 THEN UsizeMax ELSE idx - 1 IN
         IF current = 0 THEN Out(idx, pl, Err("FallsOffEnd"))
         ELSE IF current \notin DOMAIN pl
              THEN Out(current, pl, Panic("index out of bounds"))
         ELSE IF pl[current] = None
              THEN Out(current, pl, Panic("assertion failed"))
         ELSE Out(current, pl, Ok(Self))

\* mutant of value (reads the slot before the index)
value_op_before(idx, pl) ==
    IF (idx - 1) \notin DOMAIN pl
    THEN Out(idx, pl, Panic("index out of bounds"))
    ELSE Out(idx, pl, ok_or(pl[idx - 1]))

\* value(&self)
value_op(idx, pl) ==
    IF idx \notin DOMAIN pl THEN Out(idx, pl, Panic("index out of bounds"))
    ELSE Out(idx, pl, ok_or(pl[idx]))

\* ---- the state machine --------------------------------------------------
Init ==
    \E s \in Texts :
        /\ value = from(s).value
        /\ payload = from(s).payload
        /\ index = from(s).index
        /\ panicked = FALSE
        /\ log = <<>>

\* a call returns (or panics) with outcome o
Commit(name, o) ==
    /\ index' = o.index
    /\ payload' = o.payload
    /\ panicked' = (o.res.kind = "Panic")
    /\ log' = Append(log, [op |-> name, pre |-> index, post |-> o.index,
                           res |-> o.res])
    /\ UNCHANGED value

CanCall == ~panicked /\ Len(log) < MaxCalls

call_next == CanCall /\ Commit("next", next_op(index, payload, value))

call_prev ==
    /\ CanCall
    /\ \E oc \in BOOLEAN : Commit("prev", prev_op(index, payload, value, oc))

call_peek_next ==
    CanCall /\ Commit("peek_next", peek_next_op(index, payload, value))

call_peek_prev ==
    /\ CanCall
    /\ \E oc \in BOOLEAN :
           Commit("peek_prev", peek_prev_op(index, payload, value, oc))

call_value == CanCall /\ Commit("value", value_op(index, payload))

Next ==
    \/ call_next
    \/ call_prev
    \/ call_peek_next
    \/ call_peek_prev
    \/ call_value

Spec == Init /\ [][Next]_vars

\* ---- helpers for the properties ----------------------------------------
\* the first n calls were all `name`
AllOps(from_, to_, name) == \A i \in from_..to_ : log[i].op = name

\* the cursor is on a character: the slot under the index holds one
Positioned == index \in DOMAIN payload /\ payload[index] # None

TypeOK ==
    /\ value \in Texts
    /\ DOMAIN payload = 0..len(value)
    /\ \A i \in DOMAIN payload : payload[i] \in Chars \cup {None}
    /\ index \in Int
    /\ panicked \in BOOLEAN
    /\ Len(log) <= MaxCalls


FallsOffEnd == Err("FallsOffEnd")

\* a call that returned a character
ReturnsChar(e) == e.res.kind = "Ok" /\ e.res.val \in Chars

\* ---- properties ---------------------------------------------------------

\* C1: for a non-empty text T of N characters, the first N next calls on a
\* fresh cursor return T[1], ..., T[N] in order and the (N+1)-th next call
\* returns FallsOffEnd.
C1_NextYieldsTextInOrder ==
    \A n \in 1..Len(log) :
        (Len(value) >= 1 /\ AllOps(1, n, "next")) =>
            /\ (n <= Len(value) => log[n].res = Ok(value[n]))
            /\ (n = Len(value) + 1 => log[n].res = FallsOffEnd)

\* C2: after any sequence of calls that returned, the index is within
\* 0 .. value.len() + 1 (position within -1 .. len).
C2_IndexInRange ==
    ~panicked => index \in 0..(len(value) + 1)

\* C3: no call aborts (index out of range, integer underflow, failed
\* assertion): every call returns a success value or an error value.
C3_NoAbort ==
    \A i \in 1..Len(log) : log[i].res.kind \in {"Ok", "Err"}

\* C4: once a next call has failed with FallsOffEnd, every next call of the
\* unbroken run of next calls that follows it returns FallsOffEnd too.
C4_ExhaustedNextKeepsFailing ==
    \A i \in 1..Len(log) : \A j \in i..Len(log) :
        (AllOps(i, j, "next") /\ log[i].res = FallsOffEnd) =>
            log[j].res = FallsOffEnd

C4_Witness ==
    /\ Len(value) >= 1
    /\ Len(log) >= 4
    /\ log[Len(log) - 3].op = "next" /\ log[Len(log) - 3].res.kind = "Ok"
    /\ AllOps(Len(log) - 2, Len(log), "next")
    /\ \A i \in (Len(log) - 2)..Len(log) : log[i].res = FallsOffEnd

\* C5: prev as the first call on a fresh cursor returns FallsOffEnd, for
\* every text.
C5_PrevOnFreshFails ==
    (Len(log) >= 1 /\ log[1].op = "prev") => log[1].res = FallsOffEnd

\* C6: on a text of two or more characters, after one successful next, prev
\* returns FallsOffEnd and leaves the index unchanged, and the next call
\* after it returns the second character of the text.
C6_PrevAtFrontThenNext ==
    (/\ Len(value) >= 2
     /\ Len(log) >= 3
     /\ log[1].op = "next" /\ log[1].res.kind = "Ok"
     /\ log[2].op = "prev"
     /\ log[3].op = "next") =>
        /\ log[2].res = FallsOffEnd
        /\ log[2].post = log[2].pre
        /\ log[3].res = Ok(value[2])

\* C7: round trip.  For every k with 2 <= k <= number of characters, k next
\* calls on a fresh cursor followed by k - 1 prev calls all succeed, and the
\* last prev returns the character the first next returned.
C7_RoundTrip ==
    \A k \in 2..Len(value) : \A n \in 1..Len(log) :
        (/\ n <= 2 * k - 1
         /\ AllOps(1, IF n < k THEN n ELSE k, "next")
         /\ AllOps(k + 1, n, "prev")) =>
            /\ ReturnsChar(log[n])
            /\ (n = 2 * k - 1 => log[n].res = log[1].res)

C7_Witness ==
    /\ Len(value) >= 3
    /\ Len(log) = 5
    /\ AllOps(1, 3, "next")
    /\ AllOps(4, 5, "prev")
    /\ ReturnsChar(log[5])
    /\ log[5].res = log[1].res
    /\ index = 1

\* C8: whenever the cursor is on a character, peek_next followed at once by
\* peek_prev brings the index back to where it was, and value() returns
\* after the pair what it returned before it.
C8_PeekNextPeekPrev ==
    (~panicked /\ Positioned) =>
        \A oc \in BOOLEAN :
            LET a == peek_next_op(index, payload, value)
                b == peek_prev_op(a.index, a.payload, value, oc)
            IN /\ a.res.kind # "Panic"
               /\ b.res.kind # "Panic"
               /\ b.index = index
               /\ value_op(b.index, b.payload).res
                      = value_op(index, payload).res
               /\ ReturnsChar(value_op(b.index, b.payload))

\* the pair has just been called from a position on a character
C8_Witness ==
    /\ Len(log) >= 3
    /\ log[Len(log) - 1].op = "peek_next"
    /\ log[Len(log) - 1].res = Ok(Self)
    /\ log[Len(log) - 1].pre >= 1
    /\ log[Len(log)].op = "peek_prev"
    /\ log[Len(log)].res = Ok(Self)
    /\ index = log[Len(log) - 1].pre
    /\ Positioned

\* C9: on the empty text the first next call returns FallsOffEnd, and no
\* call on that cursor ever returns a character.
C9_EmptyText ==
    Len(value) = 0 =>
        /\ \A i \in 1..Len(log) : ~ReturnsChar(log[i])
        /\ (Len(log) >= 1 /\ log[1].op = "next") => log[1].res = FallsOffEnd

C9_Witness ==
    /\ Len(value) = 0
    /\ Len(log) >= 2
    /\ log[1].op = "next"
    /\ log[1].res = FallsOffEnd
    /\ log[2].op = "value"

\* C10: from every reachable state peek_next and next give the same index
\* and the same outcome (both succeed, or both fail with the same error; on
\* the last slot both move the index one past it), and after a successful
\* peek_next value() returns the character next would have returned.
C10_PeekNextAsNext ==
    ~panicked =>
        LET n == next_op(index, payload, value)
            p == peek_next_op(index, payload, value)
        IN /\ p.index = n.index
           /\ p.res.kind = n.res.kind
           /\ p.res.kind # "Panic"
           /\ (p.res.kind = "Err" => p.res = n.res)
           /\ (index = len(value) =>
                   p.res = FallsOffEnd /\ p.index = len(value) + 1)
           /\ (p.res.kind = "Ok" =>
                   /\ p.res = Ok(Self)
                   /\ value_op(p.index, p.payload).res = n.res)

\* peek_next has both succeeded and failed at the end on this cursor
C10_Witness ==
    /\ Len(value) >= 1
    /\ Len(log) >= 2
    /\ \E i \in 1..Len(log) :
           /\ log[i].op = "peek_next" /\ log[i].res = Ok(Self)
           /\ log[i].post = log[i].pre + 1
    /\ log[Len(log)].op = "peek_next"
    /\ log[Len(log)].res = FallsOffEnd
    /\ log[Len(log)].pre = len(value)
    /\ index = len(value) + 1

\* C11: from every reachable state (index 0, 1, later, past the end) and in
\* either build, peek_prev and prev give the same index and the same outcome
\* (both succeed, both fail with the same error, or neither returns); on the
\* first character both return FallsOffEnd and leave the index unchanged.
C11_PeekPrevAsPrev ==
    ~panicked =>
        \A oc \in BOOLEAN :
            LET r == prev_op(index, payload, value, oc)
                p == peek_prev_op(index, payload, value, oc)
            IN /\ p.index = r.index
               /\ p.res.kind = r.res.kind
               /\ (p.res.kind = "Err" => p.res = r.res)
               /\ (p.res.kind = "Ok" => p.res = Ok(Self))
               /\ (index = 1 => p.res = FallsOffEnd /\ p.index = 1)

\* peek_prev has both moved back and failed on the first character
C11_Witness ==
    /\ Len(log) >= 4
    /\ \E i \in 1..Len(log) :
           /\ log[i].op = "peek_prev" /\ log[i].res = Ok(Self)
           /\ log[i].post = log[i].pre - 1
    /\ log[Len(log)].op = "peek_prev"
    /\ log[Len(log)].res = FallsOffEnd
    /\ log[Len(log)].pre = 1
    /\ index = 1

Steps == {"next", "prev", "peek_next", "peek_prev"}

\* C12: every error value returned by next, prev, peek_next or peek_prev is
\* FallsOffEnd; none of them returns NextFailed or ValueNotFound.
C12_SingleErrorKind ==
    \A i \in 1..Len(log) :
        (log[i].op \in Steps /\ log[i].res.kind = "Err") =>
            log[i].res = FallsOffEnd

\* each of the four has failed once, at the front and at the end
C12_Witness ==
    /\ Len(log) >= 4
    /\ \A o \in Steps :
           \E i \in 1..Len(log) : log[i].op = o /\ log[i].res = FallsOffEnd

\* the last call before call i that is not a value call (0 if none)
RECURSIVE LastStep(_)
LastStep(i) ==
    IF i <= 1 THEN 0
    ELSE IF log[i - 1].op # "value" THEN i - 1
    ELSE LastStep(i - 1)

\* C13: value() leaves the index where it was; on a character it returns
\* one, the same on every repeated call, and after a successful next or prev
\* (with only value calls in between) the character that call returned.
C13_ValueReadsCurrent ==
    \A i \in 1..Len(log) :
        log[i].op = "value" =>
            /\ log[i].post = log[i].pre
            /\ (log[i].pre \in 1..len(value) =>
                    /\ ReturnsChar(log[i])
                    /\ (i > 1 /\ log[i - 1].op = "value" =>
                            log[i].res = log[i - 1].res)
                    /\ LET j == LastStep(i) IN
                       (/\ j >= 1
                        /\ log[j].op \in {"next", "prev"}
                        /\ log[j].res.kind = "Ok") =>
                           log[i].res = log[j].res)

\* value called twice after a prev that returned a character
C13_Witness ==
    /\ Len(log) >= 5
    /\ log[Len(log) - 2].op = "prev"
    /\ ReturnsChar(log[Len(log) - 2])
    /\ log[Len(log) - 1].op = "value"
    /\ log[Len(log)].op = "value"
    /\ log[Len(log)].res = log[Len(log) - 2].res
    /\ index = log[Len(log) - 2].post

\* C14: value() on a cursor that is on no character (index 0, or index past
\* the end after a failed next / peek_next) returns ValueNotFound and leaves
\* the index unchanged.
C14_ValueUnpositioned ==
    \A i \in 1..Len(log) :
        (log[i].op = "value" /\ log[i].pre \notin 1..len(value)) =>
            /\ log[i].res = Err("ValueNotFound")
            /\ log[i].post = log[i].pre

\* C15: on a non-empty text, a prev called right after a failed next
\* (however many failed next calls came before it) succeeds and returns the
\* last character of the text.
C15_PrevAfterFailedNext ==
    \A i \in 2..Len(log) :
        (/\ Len(value) >= 1
         /\ log[i].op = "prev"
         /\ log[i - 1].op = "next"
         /\ log[i - 1].res = FallsOffEnd) =>
            log[i].res = Ok(value[Len(value)])

\* C16: a prev that succeeds from index p lands on index p - 1 and returns
\* the character of the text at that place (value[p - 1], counting the
\* first character as 1).
C16_PrevReturnsTextChar ==
    \A i \in 1..Len(log) :
        (/\ log[i].op = "prev"
         /\ log[i].res.kind = "Ok"
         /\ (log[i].pre - 1) \in 1..Len(value)) =>
            /\ log[i].post = log[i].pre - 1
            /\ log[i].res = Ok(value[log[i].post])

\* C17: once next or peek_next has been called, the index never comes back
\* to the sentinel 0, whatever prev and peek_prev calls follow.
C17_NeverBackToUnstarted ==
    \A i \in 1..Len(log) :
        log[i].op \in {"next", "peek_next"} =>
            /\ \A j \in i..Len(log) : log[j].post >= 1
            /\ index >= 1

\* prev and peek_prev have both been refused on the first character
C17_Witness ==
    /\ Len(log) >= 4
    /\ log[1].op \in {"next", "peek_next"}
    /\ \E i \in 2..Len(log) :
           log[i].op = "prev" /\ log[i].pre = 1 /\ log[i].res = FallsOffEnd
    /\ log[Len(log) - 1].op = "peek_prev"
    /\ log[Len(log) - 1].res = Ok(Self)
    /\ log[Len(log)].op = "peek_prev"
    /\ log[Len(log)].res = FallsOffEnd
    /\ index = 1

\* C18: in a run of next calls on a fresh cursor, the n-th call succeeds
\* exactly when n is at most the number of characters of the text, and
\* the call after the last character returns FallsOffEnd.
C18_StepsCountCharacters ==
    \A n \in 1..Len(log) :
        AllOps(1, n, "next") =>
            /\ (log[n].res.kind = "Ok" <=> n <= Len(value))
            /\ (n > Len(value) => log[n].res = FallsOffEnd)

\* what a step may do to the cache: fill the empty slot it lands on
FillsOnly(old, new, i) ==
    /\ DOMAIN new = DOMAIN old
    /\ \A c \in DOMAIN old :
           new[c] # old[c] => (c = i /\ old[c] = None /\ new[c] # None)

\* C19 as stated: no call changes the text or anything but the index.
C19_OnlyIndexChanges ==
    [][value' = value /\ payload' = payload]_vars

\* C19 amended: no call changes the text; prev, peek_prev and value leave
\* the cache as it is, and next and peek_next change at most the slot under
\* the new index, from empty to filled.
C19_OnlyIndexAndCacheFill ==
    [][/\ value' = value
       /\ FillsOnly(payload, payload', index')
       /\ (log'[Len(log')].op \in {"prev", "peek_prev", "value"} =>
               payload' = payload)]_vars

\* a prev has run on a cursor whose cache was filled by next
C19_Witness ==
    /\ Len(log) >= 3
    /\ log[Len(log)].op = "prev"
    /\ ReturnsChar(log[Len(log)])
    /\ \E c \in DOMAIN payload : c > index /\ payload[c] # None

Min(a, b) == IF a < b THEN a ELSE b

\* C20: between calls, slot 0 of the cache is empty and every slot from 1
\* to min(index, value.len()) is filled; no call fails an assertion, and no
\* call changes a filled slot.
C20_CacheInvariant ==
    /\ \A i \in 1..Len(log) : log[i].res # Panic("assertion failed")
    /\ ~panicked =>
        /\ payload[0] = None
        /\ \A c \in 1..Min(index, len(value)) : payload[c] # None
        /\ \A oc \in BOOLEAN :
             \A o \in {next_op(index, payload, value),
                       prev_op(index, payload, value, oc),
                       peek_next_op(index, payload, value),
                       peek_prev_op(index, payload, value, oc),
                       value_op(index, payload)} :
                /\ o.res # Panic("assertion failed")
                /\ \A c \in DOMAIN payload :
                       payload[c] # None => o.payload[c] = payload[c]

\* the cursor has walked forward over filled and fresh slots and back
C20_Witness ==
    /\ Len(log) >= 4
    /\ \E i \in 1..Len(log) :
           log[i].op \in {"prev", "peek_prev"} /\ log[i].res.kind = "Ok"
    /\ log[Len(log)].op = "peek_next"
    /\ log[Len(log)].res = Ok(Self)
    /\ index >= 2
    /\ ~panicked

====
